---- MODULE Spec2Model ----
(***************************************************************************)
(* caesar-quant: ingestion of price bars (data/fetcher.py through          *)
(* client/api_client.py), the three indicator modules (indicators/boll.py, *)
(* macd.py, rsi.py) and the fetch / calculate command loops of main.py.    *)
(*                                                                         *)
(* Abstractions: a bar carries its timestamp and its close only (the       *)
(* other price columns never reach an indicator); floating point numbers   *)
(* are exact rationals extended with NaN and +inf; the file system is the  *)
(* variables bars, cache, charts and dirs.                                 *)
(***************************************************************************)
EXTENDS Integers, Sequences, FiniteSets, TLC

VARIABLES
    indicator,      \* the --indicator the calculate commands are given
    symbols_yaml,   \* config/symbols.yaml as load_symbols_config returns it
    factors_yaml,   \* config/factors.yaml as load_factors_config returns it
    bars,           \* <output>/<symbol>/<symbol>_<level>.csv, per (symbol, level)
    cache,          \* .../indicators/<kind>/<level>/<symbol>_<level>_<kind>.csv
    charts,         \* the .png files that exist, as <<symbol, level, kind>>
    dirs,           \* the directories that exist
    pc,             \* where the process is: "idle", "sym", "lvl", "calc"
    run,            \* the locals of the command that is running
    elapsed,        \* seconds slept since the latest provider call of this run
    gap,            \* seconds slept between the two latest provider calls of this run
    fetched,        \* the latest loop iteration of fetch_stock_data
    last,           \* the latest call of calculate_and_save_<kind>
    result,         \* how the latest command ended
    writes,         \* to_csv calls on each indicator artifact
    calc,           \* a direct call of an indicator function: its input, then its result
    procs           \* two processes inside calculate_and_save_<kind> at once

vars == <<indicator, symbols_yaml, factors_yaml, bars, cache, charts, dirs, pc, run,
          elapsed, gap, fetched, last, result, writes, calc, procs>>

-----------------------------------------------------------------------------
(* Bounds of the model and alphabets of the inputs.                        *)

MaxRows == 2

Timestamps == {1, 2}
Variants == {0, 1}
CloseValues == {1, 2}
NCols == {4, 5, 6}

Symbols == {"AAPL", "MSFT"}
Levels == {"1_minute", "1_day", "2_hour"}
Kinds == {"boll", "macd", "rsi"}
Keys == Symbols \X Levels

-----------------------------------------------------------------------------
(* Numbers: exact rationals, NaN and +inf.                                 *)

RECURSIVE GCD(_, _)
GCD(a, b) == IF b = 0 THEN a ELSE GCD(b, a % b)

Abs(x) == IF x < 0 THEN -x ELSE x

LCM(a, b) == (a \div GCD(a, b)) * b

NaN == [k |-> "nan"]
PosInf == [k |-> "inf"]
Num(n, d) ==
    LET s == IF d < 0 THEN -1 ELSE 1
        g == GCD(Abs(n), Abs(d))
    IN  [k |-> "num", n |-> (s * n) \div g, d |-> (s * d) \div g]
Whole(n) == Num(n, 1)
IsNum(x) == x.k = "num"

FAdd(x, y) ==
    IF x.k = "nan" \/ y.k = "nan" THEN NaN
    ELSE IF x.k = "inf" \/ y.k = "inf" THEN PosInf
    ELSE LET l == LCM(x.d, y.d)
         IN  Num(x.n * (l \div x.d) + y.n * (l \div y.d), l)
FSub(x, y) ==
    IF x.k = "nan" \/ y.k = "nan" THEN NaN
    ELSE IF y.k = "inf" THEN NaN
    ELSE IF x.k = "inf" THEN PosInf
    ELSE LET l == LCM(x.d, y.d)
         IN  Num(x.n * (l \div x.d) - y.n * (l \div y.d), l)
FMul(x, y) ==
    IF IsNum(x) /\ IsNum(y) THEN Num(x.n * y.n, x.d * y.d) ELSE NaN
\* Comparisons: every comparison with NaN is false
FLt(x, y) ==
    IF x.k = "nan" \/ y.k = "nan" THEN FALSE
    ELSE IF x.k = "inf" THEN FALSE
    ELSE IF y.k = "inf" THEN TRUE
    ELSE x.n * y.d < y.n * x.d
FLe(x, y) ==
    IF x.k = "nan" \/ y.k = "nan" THEN FALSE
    ELSE IF y.k = "inf" THEN TRUE
    ELSE IF x.k = "inf" THEN FALSE
    ELSE x.n * y.d <= y.n * x.d
FGt(x, y) == FLt(y, x)
FGe(x, y) == FLe(y, x)

\* A slip: a division that gives NaN for every zero divisor
FDivZeroIsNaN(x, y) ==
    IF x.k = "nan" \/ y.k = "nan" THEN NaN
    ELSE IF y.k = "inf" THEN (IF x.k = "inf" THEN NaN ELSE Whole(0))
    ELSE IF x.k = "inf" THEN PosInf
    ELSE IF y.n = 0 THEN NaN
    ELSE Num(x.n * y.d, x.d * y.n)

\* IEEE division of non-negative operands: x/0 is +inf, 0/0 is NaN, x/inf is 0.
FDiv(x, y) ==
    IF x.k = "nan" \/ y.k = "nan" THEN NaN
    ELSE IF y.k = "inf" THEN (IF x.k = "inf" THEN NaN ELSE Whole(0))
    ELSE IF x.k = "inf" THEN PosInf
    ELSE IF y.n = 0 THEN (IF x.n = 0 THEN NaN ELSE PosInf)
    ELSE Num(x.n * y.d, x.d * y.n)

RECURSIVE SumTo(_, _, _)
SumTo(f, lo, hi) == IF hi < lo THEN 0 ELSE f[hi] + SumTo(f, lo, hi - 1)

Max(a, b) == IF a >= b THEN a ELSE b

-----------------------------------------------------------------------------
(* The provider's answer and client/api_client.py.                         *)
(* A response body is the "Time Series" object of the JSON text: rows in   *)
(* the order of the text, each under its key, a timestamp string.  Two     *)
(* strings (variants) can denote the same instant.                         *)

RawRows == [k : Timestamps \X Variants, close : CloseValues]
Bodies == UNION {[1..n -> RawRows] : n \in 0..MaxRows}
NoResponse == [ok |-> FALSE]
Responses == {NoResponse} \cup [ok : {TRUE}, ncols : NCols, body : Bodies]

NoFrame == [isdf |-> FALSE]
ProviderColumns == <<"1. open", "2. high", "3. low", "4. close", "5. volume", "6. extra">>
BarColumns == <<"open", "high", "low", "close", "volume">>

Front(s) == SubSeq(s, 1, Len(s) - 1)

\* response.json(): an object keeps one value per key, the last one of the
\* text, at the position of the key's first occurrence.
RECURSIVE response_json(_)
response_json(body) ==
    IF body = <<>> THEN <<>>
    ELSE LET d == response_json(Front(body))
             r == body[Len(body)]
         IN  IF \E i \in 1..Len(d) : d[i].k = r.k
             THEN [i \in 1..Len(d) |-> IF d[i].k = r.k THEN r ELSE d[i]]
             ELSE Append(d, r)

\* pd.DataFrame.from_dict(..., orient='index') and df.index = pd.to_datetime(df.index)
to_datetime(d) == [i \in 1..Len(d) |-> [ts |-> d[i].k[1], close |-> d[i].close]]

\* df.sort_index(): ascending by index, rows of equal index in their order.
RECURSIVE sort_index(_)
sort_index(rows) ==
    IF rows = <<>> THEN <<>>
    ELSE LET s == sort_index(Front(rows))
             r == rows[Len(rows)]
             p == Cardinality({i \in 1..Len(s) : s[i].ts <= r.ts})
         IN  SubSeq(s, 1, p) \o <<r>> \o SubSeq(s, p + 1, Len(s))

\* The body of both fetch functions after the request: None on a failed
\* request, on an error payload and on any exception (assigning five names
\* to more than five columns raises), else the sorted frame.
time_series_frame(resp) ==
    IF ~resp.ok THEN NoFrame
    ELSE IF resp.body # <<>> /\ resp.ncols > 5 THEN NoFrame
    ELSE LET sorted == sort_index(to_datetime(response_json(resp.body)))
         IN  [isdf |-> TRUE,
              columns |-> IF resp.body = <<>> THEN <<>>
                          ELSE IF resp.ncols >= 5 THEN BarColumns
                          ELSE SubSeq(ProviderColumns, 1, resp.ncols),
              index |-> [i \in 1..Len(sorted) |-> sorted[i].ts],
              rows |-> [i \in 1..Len(sorted) |-> [close |-> sorted[i].close]]]

fetch_intraday_data(resp) == time_series_frame(resp)
fetch_daily_data(resp) == time_series_frame(resp)

\* df.empty
empty(df) == df.rows = <<>> \/ df.columns = <<>>

-----------------------------------------------------------------------------
(* Files.                                                                  *)

NoFile == [exists |-> FALSE]

\* DataFrame.to_csv(filename): the index is the first column, under the
\* index's name, which is empty for every frame written here.
to_csv(df) ==
    [exists |-> TRUE,
     header |-> <<"">> \o df.columns,
     rows |-> [i \in 1..Len(df.rows) |-> [index |-> df.index[i], data |-> df.rows[i]]]]

\* pd.read_csv(filename): a column without a header is named "Unnamed: 0"
\* and is data; the frame gets a RangeIndex.
read_csv(file) ==
    [isdf |-> TRUE,
     columns |-> [i \in 1..Len(file.header) |->
                    IF file.header[i] = "" THEN "Unnamed: 0" ELSE file.header[i]],
     index |-> [i \in 1..Len(file.rows) |-> i - 1],
     unnamed |-> [i \in 1..Len(file.rows) |-> file.rows[i].index],
     rows |-> [i \in 1..Len(file.rows) |-> file.rows[i].data]]

Range(s) == {s[i] : i \in 1..Len(s)}

\* 'time' in col.lower() or 'date' in col.lower(), over the column names
\* that occur here
timestamp_col(col) == col \in {"timestamp", "date", "datetime", "time"}

\* The frame calculate_and_save_<kind> computes on: read_csv, then the
\* first timestamp column, when there is one, becomes the index.
load_bars(file) ==
    LET df == read_csv(file)
    IN  IF \E i \in 1..Len(df.columns) : timestamp_col(df.columns[i])
        THEN [df EXCEPT !.index = df.unnamed]
        ELSE df

\* df['close'] as a sequence; df has the column.
close_of(df) == [i \in 1..Len(df.rows) |-> df.rows[i].close]

ZeroRowFile == [exists |-> TRUE, header |-> <<"">> \o BarColumns, rows |-> <<>>]

-----------------------------------------------------------------------------
(* The indicator functions.                                                *)

BollPeriod == 20
BollMultiplier == 2
MacdFast == 12
MacdSlow == 26
MacdSignal == 9
RsiPeriod == 14

Raised == [raised |-> TRUE]

\* A slip: .dropna() on the result, which drops the rows that hold a NaN
DataFrame_dropna(df, columns, rows) ==
    LET keep == {i \in 1..Len(rows) : \A c \in Range(columns) : rows[i][c].k # "nan"}
        at[n \in 0..Len(rows)] ==
            IF n = 0 THEN <<>>
            ELSE IF n \in keep THEN Append(at[n - 1], n) ELSE at[n - 1]
        kept == at[Len(rows)]
    IN  [raised |-> FALSE, columns |-> columns,
         index |-> [j \in 1..Len(kept) |-> df.index[kept[j]]],
         rows |-> [j \in 1..Len(kept) |-> rows[kept[j]]]]

\* pd.DataFrame({...}) of series computed from df['close']: they carry
\* the index of df, and so does the result.
DataFrame(df, columns, rows) ==
    [raised |-> FALSE, columns |-> columns, index |-> df.index, rows |-> rows]

\* Series.rolling(window, min_periods).mean() of an integer series, at i
rolling_mean(x, window, min_periods, i) ==
    LET lo == Max(1, i - window + 1)
    IN  IF i - lo + 1 < min_periods THEN NaN ELSE Num(SumTo(x, lo, i), i - lo + 1)

\* The square of Series.rolling(window).std() at i: pandas' default ddof=1
\* divides the squared deviations by window - 1.
rolling_var(x, window, i) ==
    IF i < window \/ window < 2 THEN NaN
    ELSE LET lo == i - window + 1
             S == SumTo(x, lo, i)
             Q == SumTo([j \in DOMAIN x |-> x[j] * x[j]], lo, i)
         IN  Num(window * Q - S * S, window * (window - 1))

\* middle + mult * sqrt(var), kept symbolic when the root is not taken
Band(middle, mult, var) ==
    IF ~IsNum(middle) \/ ~IsNum(var) THEN NaN
    ELSE IF var.n = 0 THEN middle
    ELSE [k |-> "band", middle |-> middle, mult |-> mult, var |-> var]

\* rolling(window=period) without min_periods: min_periods is the window
min_periods_default(window) == window

calculate_boll(df, period, std_multiplier) ==
    IF "close" \notin Range(df.columns) THEN Raised
    ELSE LET c == close_of(df)
             middle_band == [i \in DOMAIN c |->
                               rolling_mean(c, period, min_periods_default(period), i)]
             var == [i \in DOMAIN c |-> rolling_var(c, period, i)]
         IN  DataFrame(df, <<"MIDDLE", "UPPER", "LOWER">>,
                       [i \in DOMAIN c |->
                          [MIDDLE |-> middle_band[i],
                           UPPER |-> Band(middle_band[i], std_multiplier, var[i]),
                           LOWER |-> Band(middle_band[i], -std_multiplier, var[i])]])

\* A slip: the recursion seeded with 0 in place of the first observation
ewm_zero_seed(x, span) ==
    LET y[i \in DOMAIN x] ==
            FAdd(FMul(Num(span - 1, span + 1), IF i = 1 THEN Whole(0) ELSE y[i - 1]),
                 FMul(Num(2, span + 1), x[i]))
    IN  [i \in DOMAIN x |-> y[i]]

\* Series.ewm(span=span, adjust=False).mean()
ewm_mean(x, span) ==
    LET y[i \in DOMAIN x] ==
            IF i = 1 THEN x[1]
            ELSE FAdd(FMul(Num(span - 1, span + 1), y[i - 1]),
                      FMul(Num(2, span + 1), x[i]))
    IN  [i \in DOMAIN x |-> y[i]]

calculate_macd(df, fast_period, slow_period, signal_period) ==
    IF "close" \notin Range(df.columns) THEN Raised
    ELSE LET c == [i \in 1..Len(df.rows) |-> Whole(df.rows[i].close)]
             ema_fast == ewm_mean(c, fast_period)
             ema_slow == ewm_mean(c, slow_period)
             macd_line == [i \in DOMAIN c |-> FSub(ema_fast[i], ema_slow[i])]
             signal_line == ewm_mean(macd_line, signal_period)
         IN  DataFrame(df, <<"DIFF", "DEA", "BAR">>,
                       [i \in DOMAIN c |->
                          [DIFF |-> macd_line[i],
                           DEA |-> signal_line[i],
                           BAR |-> FSub(macd_line[i], signal_line[i])]])

\* Series.shift(1): every value one place later, NaN in the first place
shift(x) == [i \in DOMAIN x |-> IF i = 1 THEN NaN ELSE x[i - 1]]

\* A slip: "<" on the shifted values where the code says "<="
golden_cross_strict(macd_df) ==
    LET DIFF == [i \in 1..Len(macd_df.rows) |-> macd_df.rows[i].DIFF]
        DEA == [i \in 1..Len(macd_df.rows) |-> macd_df.rows[i].DEA]
    IN  [i \in DOMAIN DIFF |->
            FGt(DIFF[i], DEA[i]) /\ FLt(shift(DIFF)[i], shift(DEA)[i])]

\* plot_macd, macd.py:80: the mask of the golden crosses
golden_cross(macd_df) ==
    LET DIFF == [i \in 1..Len(macd_df.rows) |-> macd_df.rows[i].DIFF]
        DEA == [i \in 1..Len(macd_df.rows) |-> macd_df.rows[i].DEA]
    IN  [i \in DOMAIN DIFF |->
            FGt(DIFF[i], DEA[i]) /\ FLe(shift(DIFF)[i], shift(DEA)[i])]

\* plot_macd, macd.py:82: the mask of the death crosses
death_cross(macd_df) ==
    LET DIFF == [i \in 1..Len(macd_df.rows) |-> macd_df.rows[i].DIFF]
        DEA == [i \in 1..Len(macd_df.rows) |-> macd_df.rows[i].DEA]
    IN  [i \in DOMAIN DIFF |->
            FLt(DIFF[i], DEA[i]) /\ FGe(shift(DIFF)[i], shift(DEA)[i])]

\* rsi.py:25-28: delta = close.diff(); gain = delta.where(delta > 0, 0).
\* delta[1] is NaN, and NaN > 0 and NaN < 0 are both false.
gain(c) ==
    [i \in DOMAIN c |-> IF i > 1 /\ c[i] - c[i - 1] > 0 THEN c[i] - c[i - 1] ELSE 0]

\* A slip: the minus sign of "-delta.where(delta < 0, 0)" left out
loss_unnegated(c) ==
    [i \in DOMAIN c |-> IF i > 1 /\ c[i] - c[i - 1] < 0 THEN c[i] - c[i - 1] ELSE 0]

\* rsi.py:29: loss = -delta.where(delta < 0, 0)
loss(c) ==
    [i \in DOMAIN c |-> IF i > 1 /\ c[i] - c[i - 1] < 0 THEN c[i - 1] - c[i] ELSE 0]

\* rsi.py:32-33: Series.rolling(window=period, min_periods=1).mean()
rolling_average(x, period) == [i \in DOMAIN x |-> rolling_mean(x, period, 1, i)]

calculate_rsi(df, period) ==
    IF "close" \notin Range(df.columns) THEN Raised
    ELSE LET c == close_of(df)
             avg_gain == rolling_average(gain(c), period)
             avg_loss == rolling_average(loss(c), period)
             rs == [i \in DOMAIN c |-> FDiv(avg_gain[i], avg_loss[i])]
         IN  DataFrame(df, <<"RSI">>,
                       [i \in DOMAIN c |->
                          [RSI |-> FSub(Whole(100),
                                        FDiv(Whole(100), FAdd(Whole(1), rs[i])))]])

calculate(kind, df) ==
    CASE kind = "boll" -> calculate_boll(df, BollPeriod, BollMultiplier)
      [] kind = "macd" -> calculate_macd(df, MacdFast, MacdSlow, MacdSignal)
      [] kind = "rsi" -> calculate_rsi(df, RsiPeriod)

-----------------------------------------------------------------------------
(* config/reader.py                                                        *)

NoYaml == [loaded |-> FALSE]

\* "if not config": None and the empty mapping are false
truthy(config) == config.loaded /\ DOMAIN config # {"loaded"}

load_symbols_config == symbols_yaml
load_factors_config == factors_yaml

get_symbols(config) ==
    IF ~truthy(config) \/ "symbols" \notin DOMAIN config THEN <<>> ELSE config.symbols

get_technical_indicators(config) ==
    IF ~truthy(config) \/ "technical" \notin DOMAIN config THEN <<>> ELSE config.technical

get_minute_levels(config) ==
    LET technical == get_technical_indicators(config)
        with_level == SelectSeq(technical, LAMBDA item : "minute_level" \in DOMAIN item)
    IN  [i \in 1..Len(with_level) |-> with_level[i].minute_level]

-----------------------------------------------------------------------------
(* data/fetcher.py                                                         *)

SleepSeconds == 12

interval_mapping ==
    [l \in {"1_minute", "5_minute", "15_minute", "30_minute", "1_day"} |->
        CASE l = "1_minute" -> "1min"
          [] l = "5_minute" -> "5min"
          [] l = "15_minute" -> "15min"
          [] l = "30_minute" -> "30min"
          [] l = "1_day" -> "daily"]

NoRun == [cmd |-> "none", kind |-> "", symbols |-> <<>>, levels |-> <<>>,
          si |-> 1, li |-> 1, calls |-> <<>>, failed |-> FALSE]
NoFetch == [made |-> FALSE]
NoCall == [made |-> FALSE]
NoCalc == [made |-> FALSE]
Procs == {1, 2}
NoProcs == [p \in Procs |-> [pc |-> "none"]]

\* The end of fetch_stock_data for the current symbol: back in the loop of
\* fetch_all_stocks_data, or at the end of the command.
AfterSymbol(r) ==
    IF r.si < Len(r.symbols)
    THEN [pc |-> "sym", run |-> [r EXCEPT !.si = @ + 1, !.li = 1, !.levels = <<>>]]
    ELSE [pc |-> "idle", run |-> r]

\* The end of one iteration of "for minute_level in minute_levels"
AfterLevel(r) ==
    IF r.li < Len(r.levels)
    THEN [pc |-> "lvl", run |-> [r EXCEPT !.li = @ + 1]]
    ELSE AfterSymbol(r)

\* A slip: "return" where the loop says "continue"
return_on_no_data(r) == AfterSymbol(r)

\* fetcher.py:73-75, "if df is None or df.empty: ... continue"
after_no_data(r) == AfterLevel(r)

\* A slip: "raise" where the configuration checks say "return"
config_failure_raises == "raised"

\* fetcher.py:30-32, 36-38, 96-98, 102-104: "logger.error(...); return"
config_failure_outcome == "returned"

\* A slip: to_csv(filename, mode='a'), which keeps the rows of the old file
append_bars(old, df) ==
    IF old.exists THEN [to_csv(df) EXCEPT !.rows = old.rows \o @] ELSE to_csv(df)

\* fetcher.py:78-79: df.to_csv(filename) over whatever the file held
store_bars(old, df) == to_csv(df)

StartCommand(r) ==
    /\ pc = "idle"
    /\ run' = r
    /\ elapsed' = 0
    /\ gap' = -1
    /\ fetched' = NoFetch
    /\ last' = NoCall
    /\ UNCHANGED <<calc, procs>>

\* main.py:43-45 (and command/cli.py): --mode fetch --symbol <symbol>
fetch_command(symbol) ==
    /\ StartCommand([NoRun EXCEPT !.cmd = "fetch", !.symbols = <<symbol>>])
    /\ pc' = "sym"
    /\ result' = "running"
    /\ UNCHANGED <<indicator, symbols_yaml, factors_yaml, bars, cache, charts, dirs, writes>>

\* fetch_all_stocks_data up to its loop
fetch_all_stocks_data ==
    LET symbols_config == load_symbols_config
        symbols == get_symbols(symbols_config)
        failed == ~truthy(symbols_config) \/ symbols = <<>>
    IN  /\ StartCommand([NoRun EXCEPT !.cmd = "fetch_all",
                                      !.symbols = IF failed THEN <<>> ELSE symbols])
        /\ pc' = IF failed THEN "idle" ELSE "sym"
        /\ result' = IF failed THEN config_failure_outcome ELSE "running"
        /\ UNCHANGED <<indicator, symbols_yaml, factors_yaml, bars, cache, charts, dirs, writes>>

\* fetch_stock_data up to its loop, for the current symbol
fetch_stock_data ==
    LET symbol == run.symbols[run.si]
        config == load_factors_config
        minute_levels == get_minute_levels(config)
        failed == ~truthy(config) \/ minute_levels = <<>>
        next == IF failed
                THEN (IF config_failure_outcome = "raised"
                      THEN [pc |-> "idle", run |-> run] ELSE AfterSymbol(run))
                ELSE [pc |-> "lvl", run |-> [run EXCEPT !.levels = minute_levels, !.li = 1]]
    IN  /\ pc = "sym"
        /\ dirs' = dirs \cup {<<"output">>}
                        \cup (IF failed THEN {} ELSE {<<"output", symbol>>})
        /\ pc' = next.pc
        /\ run' = next.run
        /\ result' = IF next.pc = "idle"
                     THEN (IF failed THEN config_failure_outcome ELSE "returned")
                     ELSE result
        /\ UNCHANGED <<indicator, symbols_yaml, factors_yaml, bars, cache, charts, elapsed, gap,
                       fetched, last, writes, calc, procs>>

\* One iteration of the loop over minute_levels with a level that
\* interval_mapping lacks: a warning, no provider call.
fetch_unknown_level ==
    LET next == AfterLevel(run)
    IN  /\ pc = "lvl"
        /\ run.levels[run.li] \notin DOMAIN interval_mapping
        /\ pc' = next.pc
        /\ run' = next.run
        /\ result' = IF next.pc = "idle" THEN "returned" ELSE result
        /\ UNCHANGED <<indicator, symbols_yaml, factors_yaml, bars, cache, charts, dirs, elapsed,
                       gap, fetched, last, writes, calc, procs>>

\* One iteration of the loop over minute_levels: the provider call, whose
\* answer is resp, the write and the sleep.
fetch_level(resp) ==
    LET symbol == run.symbols[run.si]
        minute_level == run.levels[run.li]
        key == <<symbol, minute_level>>
        df == IF minute_level = "1_day" THEN fetch_daily_data(resp)
              ELSE fetch_intraday_data(resp)
        no_data == ~df.isdf \/ empty(df)
        called == [run EXCEPT !.calls = Append(@, [key |-> key, df |-> df])]
        next == IF no_data THEN after_no_data(called) ELSE AfterLevel(called)
    IN  /\ pc = "lvl"
        /\ minute_level \in DOMAIN interval_mapping
        /\ gap' = IF run.calls = <<>> THEN -1 ELSE elapsed
        /\ bars' = IF no_data THEN bars
                   ELSE [bars EXCEPT ![key] = store_bars(@, df)]
        /\ elapsed' = IF no_data THEN 0 ELSE SleepSeconds
        /\ fetched' = [made |-> TRUE, key |-> key, df |-> df, prev |-> bars[key]]
        /\ pc' = next.pc
        /\ run' = next.run
        /\ result' = IF next.pc = "idle" THEN "returned" ELSE result
        /\ UNCHANGED <<indicator, symbols_yaml, factors_yaml, cache, charts, dirs, last, writes,
                       calc, procs>>

-----------------------------------------------------------------------------
(* indicators/boll.py, macd.py, rsi.py: calculate_and_save_<kind>          *)

\* A slip: the check of the data file left out
data_file_unchecked(file) == TRUE

\* os.path.exists(data_file), boll.py:111, macd.py:143, rsi.py:118
data_file_exists(file) == file.exists

\* A slip: the check of the artifact left out
entry_unchecked(file) == FALSE

\* os.path.exists(csv_filename), boll.py:134, macd.py:166, rsi.py:141
entry_exists(file) == file.exists

\* A slip: the time level left out of the name of the file
csv_filename_without_level(symbol, time_level, kind) == <<symbol, "1_minute", kind>>

\* boll.py:131, macd.py:163, rsi.py:138: the path of the artifact, which
\* names the symbol, the time level and the kind
csv_filename(symbol, time_level, kind) == <<symbol, time_level, kind>>

\* os.makedirs(path): the directory and its missing parents
makedirs(path) == {SubSeq(path, 1, n) : n \in 1..Len(path)}

\* The whole of calculate_and_save_<kind>(symbol, time_level): the files
\* after the call and what the call did.  plot_ok: whether plot_<kind>
\* returns (it raises what matplotlib raises).
calculate_and_save(kind, symbol, time_level, plot_ok) ==
    LET key == <<symbol, time_level>>
        entry == csv_filename(symbol, time_level, kind)
        symbol_output_dir == <<"output", symbol, "indicators", kind, time_level>>
        data_file == bars[key]
        call == [made |-> TRUE, entry |-> entry, existed |-> cache[entry].exists,
                 data |-> data_file, read |-> FALSE, computed |-> FALSE,
                 wrote |-> FALSE, plotted |-> FALSE, outcome |-> "returned"]
        same == [cache |-> cache, charts |-> charts, dirs |-> dirs, writes |-> writes]
    IN  IF ~data_file_exists(data_file)
        THEN same @@ [call |-> call]
        ELSE IF ~data_file.exists
        THEN same @@ [call |-> [call EXCEPT !.outcome = "raised"]]
        ELSE
        LET df == load_bars(data_file)
            out == calculate(kind, df)
            did == [call EXCEPT !.read = TRUE, !.computed = TRUE]
        IN  IF out.raised
            THEN same @@ [call |-> [did EXCEPT !.outcome = "raised"]]
            ELSE IF entry_exists(cache[entry])
            THEN [same EXCEPT !.dirs = @ \cup makedirs(symbol_output_dir)]
                    @@ [call |-> did]
            ELSE [cache |-> [cache EXCEPT ![entry] = to_csv(out)],
                  charts |-> IF plot_ok THEN charts \cup {entry} ELSE charts,
                  dirs |-> dirs \cup makedirs(symbol_output_dir),
                  writes |-> [writes EXCEPT ![entry] = @ + 1],
                  call |-> [did EXCEPT !.wrote = TRUE, !.plotted = plot_ok,
                                       !.outcome = IF plot_ok THEN "returned"
                                                   ELSE "raised"]]

-----------------------------------------------------------------------------
(* main.py: --mode calculate                                               *)

\* main.py:66-90 (and the same lines of the boll and rsi branches)
main_calculate(kind, symbol_arg, time_level_arg) ==
    LET symbols_config == load_symbols_config
        symbols == IF symbol_arg # "" THEN <<symbol_arg>>
                   ELSE IF truthy(symbols_config) THEN get_symbols(symbols_config)
                   ELSE <<>>
        factors_config == load_factors_config
        minute_levels == get_minute_levels(factors_config)
        time_levels == IF time_level_arg # "" THEN <<time_level_arg>>
                       ELSE IF truthy(factors_config)
                       THEN (IF "1_day" \in Range(minute_levels) THEN minute_levels
                             ELSE Append(minute_levels, "1_day"))
                       ELSE <<>>
        nothing == symbols = <<>> \/ time_levels = <<>>
    IN  /\ StartCommand([NoRun EXCEPT !.cmd = "calculate", !.kind = kind,
                                      !.symbols = symbols, !.levels = time_levels])
        /\ pc' = IF nothing THEN "idle" ELSE "calc"
        /\ result' = IF nothing THEN "returned" ELSE "running"
        /\ UNCHANGED <<indicator, symbols_yaml, factors_yaml, bars, cache, charts, dirs, writes>>

\* The end of one iteration of "for symbol in symbols: for time_level in
\* time_levels": the next pair, or the end of the command.
AfterCalculation(r) ==
    IF r.li < Len(r.levels)
    THEN [pc |-> "calc", run |-> [r EXCEPT !.li = @ + 1], result |-> "running"]
    ELSE IF r.si < Len(r.symbols)
    THEN [pc |-> "calc", run |-> [r EXCEPT !.si = @ + 1, !.li = 1], result |-> "running"]
    ELSE [pc |-> "idle", run |-> r, result |-> "returned"]

\* A slip: the except clause raises again what it has printed
except_reraise(r) == [pc |-> "idle", run |-> r, result |-> "raised"]

\* main.py:97-98, 134-135, 171-172: "except Exception as e: print(...)",
\* and the loop goes on
except_Exception(r) == AfterCalculation(r)

\* One iteration of "for symbol in symbols: for time_level in time_levels":
\* the call inside try/except.  run.failed: a call of this run has raised.
calculate_step(plot_ok) ==
    LET after == calculate_and_save(run.kind, run.symbols[run.si],
                                    run.levels[run.li], plot_ok)
        next == IF after.call.outcome = "raised"
                THEN except_Exception([run EXCEPT !.failed = TRUE])
                ELSE AfterCalculation(run)
    IN  /\ pc = "calc"
        /\ cache' = after.cache
        /\ charts' = after.charts
        /\ dirs' = after.dirs
        /\ writes' = after.writes
        /\ last' = after.call
        /\ run' = next.run
        /\ pc' = next.pc
        /\ result' = IF next.pc = "idle" THEN next.result ELSE result
        /\ UNCHANGED <<indicator, symbols_yaml, factors_yaml, bars, elapsed, gap, fetched,
                       calc, procs>>

-----------------------------------------------------------------------------
(* Specifications.                                                         *)

AllEntries == {<<k[1], k[2], kind>> : k \in Keys, kind \in Kinds}

\* The commands of one behaviour calculate one kind of indicator: the
\* three kinds share no file and no code.
InitCommon ==
    /\ indicator \in Kinds
    /\ cache = [e \in AllEntries |-> NoFile]
    /\ charts = {}
    /\ dirs = {}
    /\ pc = "idle"
    /\ run = NoRun
    /\ elapsed = 0
    /\ gap = -1
    /\ fetched = NoFetch
    /\ last = NoCall
    /\ result = "none"
    /\ writes = [e \in AllEntries |-> 0]

\* One configured symbol and level; the daily bar file of the symbol may
\* already be there, with a header and no row.
Init ==
    /\ symbols_yaml = [loaded |-> TRUE, symbols |-> <<"AAPL">>]
    /\ factors_yaml = [loaded |-> TRUE,
                       technical |-> <<[minute_level |-> "1_minute"]>>]
    /\ \E f \in {NoFile, ZeroRowFile} :
          bars = [k \in Keys |-> IF k = <<"AAPL", "1_day">> THEN f ELSE NoFile]
    /\ InitCommon
    /\ calc = NoCalc
    /\ procs = NoProcs

\* The answers of the provider in Spec: every key in its first variant
PlainResponses ==
    {r \in Responses : r.ok => r.ncols <= 5 /\ \A i \in DOMAIN r.body : r.body[i].k[2] = 0}

\* Fetches and calculations of the configured symbol, in any order.
Next ==
    \/ fetch_command("AAPL")
    \/ fetch_all_stocks_data
    \/ fetch_stock_data
    \/ \E resp \in PlainResponses : fetch_level(resp)
    \/ \E time_level_arg \in {"", "1_minute"} :
            main_calculate(indicator, "", time_level_arg)
    \/ \E plot_ok \in BOOLEAN : calculate_step(plot_ok)

Spec == Init /\ [][Next]_vars

\* Fetches only, over every answer of the provider.
NextIngest ==
    \/ fetch_command("AAPL")
    \/ fetch_all_stocks_data
    \/ fetch_stock_data
    \/ \E resp \in Responses : fetch_level(resp)

InitIngest ==
    /\ symbols_yaml = [loaded |-> TRUE, symbols |-> <<"AAPL">>]
    /\ factors_yaml = [loaded |-> TRUE,
                       technical |-> <<[minute_level |-> "1_minute"]>>]
    /\ bars = [k \in Keys |-> NoFile]
    /\ InitCommon
    /\ indicator = "boll"
    /\ calc = NoCalc
    /\ procs = NoProcs

SpecIngest == InitIngest /\ [][NextIngest]_vars

\* Two symbols and three levels, one of them unknown to interval_mapping,
\* or a configuration file that is missing, unloadable or without its key.
SymbolsYamls ==
    {NoYaml, [loaded |-> TRUE], [loaded |-> TRUE, other |-> <<>>],
     [loaded |-> TRUE, symbols |-> <<"AAPL", "MSFT">>]}
FactorsYamls ==
    {NoYaml, [loaded |-> TRUE, other |-> <<>>],
     [loaded |-> TRUE,
      technical |-> <<[minute_level |-> "1_minute"], [name |-> "macd"],
                      [minute_level |-> "2_hour"], [minute_level |-> "1_day"]>>]}

InitRun ==
    /\ symbols_yaml \in SymbolsYamls
    /\ factors_yaml \in FactorsYamls
    /\ bars = [k \in Keys |-> NoFile]
    /\ InitCommon
    /\ calc = NoCalc
    /\ procs = NoProcs

\* The answers of the provider in SpecRun: a failure, an empty series, one bar
RunResponses ==
    {NoResponse,
     [ok |-> TRUE, ncols |-> 5, body |-> <<>>],
     [ok |-> TRUE, ncols |-> 5, body |-> <<[k |-> <<1, 0>>, close |-> 1]>>]}

NextRun ==
    \/ \E symbol \in Symbols : fetch_command(symbol)
    \/ fetch_all_stocks_data
    \/ fetch_stock_data
    \/ fetch_unknown_level
    \/ \E resp \in RunResponses : fetch_level(resp)
    \/ \E symbol_arg \in Symbols \cup {""}, time_level_arg \in Levels \cup {""} :
            main_calculate(indicator, symbol_arg, time_level_arg)
    \/ \E plot_ok \in BOOLEAN : calculate_step(plot_ok)

SpecRun == InitRun /\ [][NextRun]_vars

-----------------------------------------------------------------------------
(* Two processes inside calculate_and_save_<kind> at once: the function    *)
(* step by step, one file system call a step.  procs[p] holds the locals   *)
(* of process p; key is what it was called for, file the path it uses.     *)

Entered(key, file, out) ==
    [pc |-> "exists_dir", key |-> key, file |-> file, out |-> out,
     absent |-> FALSE, wrote |-> FALSE, outcome |-> "running"]
Ended(local, outcome) == [local EXCEPT !.pc = "done", !.outcome = outcome]

OutputDir(key) == <<"output", key[1], "indicators", key[3], key[2]>>

\* Lines 107-124 of boll.py: the check of the data file, read_csv and
\* calculate_<kind>
race_enter(p, symbol, time_level) ==
    LET key == <<symbol, time_level, indicator>>
        data_file == bars[<<symbol, time_level>>]
        out == IF data_file_exists(data_file)
               THEN calculate(indicator, load_bars(data_file)) ELSE Raised
        local == Entered(key, csv_filename(symbol, time_level, indicator), out)
    IN  /\ procs[p].pc = "none"
        /\ procs' = [procs EXCEPT ![p] =
                        IF ~data_file_exists(data_file) THEN Ended(local, "returned")
                        ELSE IF out.raised THEN Ended(local, "raised")
                        ELSE local]
        /\ UNCHANGED <<indicator, symbols_yaml, factors_yaml, bars, cache, charts, dirs, pc,
                       run, elapsed, gap, fetched, last, result, writes, calc>>

\* boll.py:127: "if not os.path.exists(symbol_output_dir)"
race_exists_dir(p) ==
    /\ procs[p].pc = "exists_dir"
    /\ procs' = [procs EXCEPT ![p].pc = IF OutputDir(procs[p].key) \in dirs
                                        THEN "exists_csv" ELSE "makedirs"]
    /\ UNCHANGED <<indicator, symbols_yaml, factors_yaml, bars, cache, charts, dirs, pc,
                   run, elapsed, gap, fetched, last, result, writes, calc>>

\* boll.py:128: os.makedirs(symbol_output_dir), which raises
\* FileExistsError when the directory has appeared since the check
race_makedirs(p) ==
    LET there == OutputDir(procs[p].key) \in dirs
    IN  /\ procs[p].pc = "makedirs"
        /\ procs' = [procs EXCEPT ![p] = IF there THEN Ended(@, "raised")
                                         ELSE [@ EXCEPT !.pc = "exists_csv"]]
        /\ dirs' = IF there THEN dirs ELSE dirs \cup makedirs(OutputDir(procs[p].key))
        /\ UNCHANGED <<indicator, symbols_yaml, factors_yaml, bars, cache, charts, pc,
                       run, elapsed, gap, fetched, last, result, writes, calc>>

\* boll.py:134-136: "if os.path.exists(csv_filename): ... return"
race_exists_csv(p) ==
    /\ procs[p].pc = "exists_csv"
    /\ procs' = [procs EXCEPT ![p] =
                    IF entry_exists(cache[procs[p].file]) THEN Ended(@, "returned")
                    ELSE [@ EXCEPT !.pc = "to_csv", !.absent = TRUE]]
    /\ UNCHANGED <<indicator, symbols_yaml, factors_yaml, bars, cache, charts, dirs, pc,
                   run, elapsed, gap, fetched, last, result, writes, calc>>

\* boll.py:138: boll_df.to_csv(csv_filename)
race_to_csv(p) ==
    /\ procs[p].pc = "to_csv"
    /\ cache' = [cache EXCEPT ![procs[p].file] = to_csv(procs[p].out)]
    /\ writes' = [writes EXCEPT ![procs[p].file] = @ + 1]
    /\ procs' = [procs EXCEPT ![p].pc = "plot", ![p].wrote = TRUE]
    /\ UNCHANGED <<indicator, symbols_yaml, factors_yaml, bars, charts, dirs, pc,
                   run, elapsed, gap, fetched, last, result, calc>>

\* boll.py:142: plot_boll(...), which saves the chart or raises
race_plot(p, plot_ok) ==
    /\ procs[p].pc = "plot"
    /\ charts' = IF plot_ok THEN charts \cup {procs[p].file} ELSE charts
    /\ procs' = [procs EXCEPT ![p] = Ended(@, IF plot_ok THEN "returned" ELSE "raised")]
    /\ UNCHANGED <<indicator, symbols_yaml, factors_yaml, bars, cache, dirs, pc,
                   run, elapsed, gap, fetched, last, result, writes, calc>>

\* A bar file of two bars, as a fetch leaves it
TwoBarFile ==
    to_csv(fetch_intraday_data([ok |-> TRUE, ncols |-> 5,
                                body |-> <<[k |-> <<1, 0>>, close |-> 1],
                                           [k |-> <<2, 0>>, close |-> 2]>>]))

RaceLevels == {"1_minute", "1_day"}

\* The bars of one level are there, those of the other may be.
InitRace ==
    /\ symbols_yaml = [loaded |-> TRUE, symbols |-> <<"AAPL">>]
    /\ factors_yaml = [loaded |-> TRUE,
                       technical |-> <<[minute_level |-> "1_minute"]>>]
    /\ \E f \in {NoFile, TwoBarFile} :
          bars = [k \in Keys |-> IF k = <<"AAPL", "1_minute">> THEN TwoBarFile
                                 ELSE IF k = <<"AAPL", "1_day">> THEN f ELSE NoFile]
    /\ InitCommon
    /\ calc = NoCalc
    /\ procs = NoProcs

NextRace ==
    \E p \in Procs :
        \/ \E time_level \in RaceLevels : race_enter(p, "AAPL", time_level)
        \/ race_exists_dir(p)
        \/ race_makedirs(p)
        \/ race_exists_csv(p)
        \/ race_to_csv(p)
        \/ \E plot_ok \in BOOLEAN : race_plot(p, plot_ok)

SpecRace == InitRace /\ [][NextRace]_vars

-----------------------------------------------------------------------------
(* The indicator functions and the masks of plot_macd, called directly on  *)
(* a series of closes, for small windows as well as the default ones.      *)

MaxLen == 4

Closes == {1, 2, 3}
Others == {1, 2}
Periods == {1, 2, 3}
MacdSpans == {<<2, 3, 2>>, <<3, 5, 2>>}

\* The frame of a bar series under its timestamps
bar_frame(close) ==
    [isdf |-> TRUE, columns |-> BarColumns,
     index |-> [i \in 1..Len(close) |-> 2 * i + 1],
     rows |-> [i \in 1..Len(close) |-> [close |-> close[i]]]]

\* A frame of given DIFF and DEA columns, as calculate_macd builds it
macd_frame(diff, dea) ==
    [raised |-> FALSE, columns |-> <<"DIFF", "DEA", "BAR">>,
     index |-> [i \in 1..Len(diff) |-> 2 * i + 1],
     rows |-> [i \in 1..Len(diff) |->
                 [DIFF |-> Whole(diff[i]), DEA |-> Whole(dea[i]),
                  BAR |-> FSub(Whole(diff[i]), Whole(dea[i]))]]]

IsConstant(c) == \A i, j \in DOMAIN c : c[i] = c[j]

\* The inputs: a series of closes and a second series of the same length
CalcInputs ==
    UNION {{[made |-> FALSE, close |-> c, other |-> o] :
                c \in [1..n -> Closes], o \in [1..n -> Others]} : n \in 0..MaxLen}

call_calculate_boll(period) ==
    LET df == bar_frame(calc.close)
    IN  /\ pc = "idle" /\ ~calc.made
        /\ calc' = [made |-> TRUE, fn |-> "boll", df |-> df, period |-> period,
                    out |-> calculate_boll(df, period, BollMultiplier)]
        /\ UNCHANGED <<indicator, symbols_yaml, factors_yaml, bars, cache, charts, dirs, pc,
                       run, elapsed, gap, fetched, last, result, writes, procs>>

\* calculate_macd and, on its result, the masks of plot_macd.  The default
\* spans are applied to constant series, small spans to every series.
call_calculate_macd(spans) ==
    LET df == bar_frame(calc.close)
        macd_df == calculate_macd(df, spans[1], spans[2], spans[3])
    IN  /\ pc = "idle" /\ ~calc.made
        /\ spans \in MacdSpans \/ IsConstant(calc.close)
        /\ calc' = [made |-> TRUE, fn |-> "macd", df |-> df, spans |-> spans,
                    out |-> macd_df,
                    golden |-> golden_cross(macd_df), death |-> death_cross(macd_df)]
        /\ UNCHANGED <<indicator, symbols_yaml, factors_yaml, bars, cache, charts, dirs, pc,
                       run, elapsed, gap, fetched, last, result, writes, procs>>

call_calculate_rsi(period) ==
    LET df == bar_frame(calc.close)
    IN  /\ pc = "idle" /\ ~calc.made
        /\ calc' = [made |-> TRUE, fn |-> "rsi", df |-> df, period |-> period,
                    out |-> calculate_rsi(df, period)]
        /\ UNCHANGED <<indicator, symbols_yaml, factors_yaml, bars, cache, charts, dirs, pc,
                       run, elapsed, gap, fetched, last, result, writes, procs>>

\* The masks of plot_macd on a frame of given DIFF and DEA columns
call_plot_macd ==
    LET macd_df == macd_frame(calc.close, calc.other)
    IN  /\ pc = "idle" /\ ~calc.made
        /\ calc' = [made |-> TRUE, fn |-> "cross", out |-> macd_df,
                    golden |-> golden_cross(macd_df), death |-> death_cross(macd_df)]
        /\ UNCHANGED <<indicator, symbols_yaml, factors_yaml, bars, cache, charts, dirs, pc,
                       run, elapsed, gap, fetched, last, result, writes, procs>>

InitCalc ==
    /\ symbols_yaml = NoYaml
    /\ factors_yaml = NoYaml
    /\ bars = [k \in Keys |-> NoFile]
    /\ InitCommon
    /\ indicator = "boll"
    /\ calc \in CalcInputs
    /\ procs = NoProcs

NextCalc ==
    \/ \E period \in Periods \cup {BollPeriod} : call_calculate_boll(period)
    \/ \E spans \in MacdSpans \cup {<<MacdFast, MacdSlow, MacdSignal>>} :
            call_calculate_macd(spans)
    \/ \E period \in Periods \cup {RsiPeriod} : call_calculate_rsi(period)
    \/ call_plot_macd

SpecCalc == InitCalc /\ [][NextCalc]_vars

-----------------------------------------------------------------------------
(* The claims.                                                             *)

ValidBars(file) == file.exists /\ "close" \in Range(file.header) /\ file.rows # <<>>
GoodFrame(df) == df.isdf /\ ~empty(df)
StrictlyIncreasing(file) ==
    \A i \in 1..(Len(file.rows) - 1) : file.rows[i].index < file.rows[i + 1].index
CurrentKey == <<run.symbols[run.si], run.levels[run.li]>>
Recomputed(call) == to_csv(calculate(call.entry[3], load_bars(call.data)))

\* C1: a call of calculate_and_save_<kind> that finds its artifact already
\* there returns normally without reading the bar file and without
\* calling the indicator function, whatever the bar file holds.
C1_ExistingEntryShortCircuits ==
    last.made /\ last.existed =>
        last.outcome = "returned" /\ ~last.read /\ ~last.computed

\* C2: with valid bar data, a call that finds no artifact writes it once,
\* and a call that finds the artifact writes nothing and leaves it as it
\* is: the artifact is there after the call and has been written exactly once.
C2_SecondCallWritesNothing ==
    [][pc = "calc" /\ ValidBars(bars[CurrentKey]) =>
          /\ cache'[last'.entry].exists
          /\ writes'[last'.entry] = 1
          /\ last'.wrote = ~last'.existed
          /\ last'.existed => cache'[last'.entry] = cache[last'.entry] /\ writes' = writes
      ]_vars

\* C2: witness, the second call on valid data found the artifact and wrote nothing
C2_Witness ==
    /\ last.made /\ last.existed /\ ValidBars(last.data)
    /\ ~last.wrote /\ writes[last.entry] = 1
    /\ cache[last.entry] = Recomputed(last)

\* C3: an artifact, once it exists, keeps the content it was created
\* with through every later fetch and every later calculation.
C3_EntryNeverChanges ==
    [][\A e \in AllEntries : cache[e].exists => cache'[e] = cache[e]]_vars

\* C3: witness, a calculation after a re-fetch found the artifact, whose
\* content is no longer what the bar file gives
C3_Witness ==
    /\ last.made /\ last.existed /\ ValidBars(last.data)
    /\ cache[last.entry] # Recomputed(last)
    /\ cache[last.entry].rows # <<>>

\* C4: at least SleepSeconds (12) seconds pass between two consecutive
\* provider calls of a run, whatever the earlier call returned.
C4_DelayBetweenCalls == gap = -1 \/ gap >= SleepSeconds

\* C5: a fetch run ends normally having called the provider for every
\* requested pair with a known level, in order, and the bar file of every
\* pair whose call gave a series holds that series; no failed or empty
\* fetch ends the run.
KnownLevels ==
    SelectSeq(get_minute_levels(load_factors_config),
              LAMBDA l : l \in DOMAIN interval_mapping)
RECURSIVE ExpectedCalls(_)
ExpectedCalls(symbols) ==
    IF symbols = <<>> THEN <<>>
    ELSE [i \in 1..Len(KnownLevels) |-> <<symbols[1], KnownLevels[i]>>]
            \o ExpectedCalls(Tail(symbols))
C5_FetchFailureIsolated ==
    /\ result # "raised"
    /\ pc = "idle" /\ run.cmd \in {"fetch", "fetch_all"} =>
          /\ result = "returned"
          /\ [i \in 1..Len(run.calls) |-> run.calls[i].key] = ExpectedCalls(run.symbols)
          /\ \A i \in 1..Len(run.calls) :
                GoodFrame(run.calls[i].df) =>
                    /\ bars[run.calls[i].key].exists
                    /\ [j \in 1..Len(bars[run.calls[i].key].rows) |->
                            bars[run.calls[i].key].rows[j].data] = run.calls[i].df.rows

\* C5: witness, a run over four pairs ended after a failed call, an empty
\* series and a stored series, in that order
C5_Witness ==
    /\ pc = "idle" /\ run.cmd = "fetch_all" /\ Len(run.calls) = 4
    /\ ~run.calls[1].df.isdf
    /\ run.calls[2].df.isdf /\ empty(run.calls[2].df)
    /\ GoodFrame(run.calls[3].df)
    /\ bars[run.calls[3].key].exists

\* C6: with a bar file of zero rows the indicator function fails, the call
\* of calculate_and_save_<kind> raises and writes nothing; no artifact
\* without rows is ever created.
C6_EmptyInputFails ==
    /\ last.made /\ last.data.exists /\ last.data.rows = <<>> =>
          last.outcome = "raised" /\ ~last.wrote
    /\ \A e \in AllEntries : cache[e].exists => cache[e].rows # <<>>

\* C7: with no bar file for the key, calculate_and_save_<kind> returns
\* without raising and changes no file and no directory.
C7_MissingBarsNoEffect ==
    [][pc = "calc" /\ ~bars[CurrentKey].exists =>
          /\ last'.outcome = "returned"
          /\ ~last'.read /\ ~last'.computed
          /\ UNCHANGED <<bars, cache, charts, dirs, writes>>
      ]_vars

\* C7: witness, a call for a key without a bar file has returned
C7_Witness ==
    /\ last.made /\ ~last.data.exists /\ last.outcome = "returned"
    /\ ~cache[last.entry].exists

\* C8: every bar file written by the ingestion is strictly increasing by
\* timestamp, so of two fetched rows with the same timestamp one is kept.
C8_StrictlyIncreasing ==
    \A k \in Keys : bars[k].exists => StrictlyIncreasing(bars[k])

\* C9: after a fetch that gave a series the bar file of the key holds
\* exactly that series, row for row; after a failed or empty fetch it
\* holds what it held before.
C9_WholesaleReplacement ==
    fetched.made =>
        IF GoodFrame(fetched.df)
        THEN /\ bars[fetched.key].exists
             /\ Len(bars[fetched.key].rows) = Len(fetched.df.rows)
             /\ \A i \in 1..Len(fetched.df.rows) :
                   /\ bars[fetched.key].rows[i].index = fetched.df.index[i]
                   /\ bars[fetched.key].rows[i].data = fetched.df.rows[i]
        ELSE bars[fetched.key] = fetched.prev

\* C9: witness, a fetched series replaced a longer one
C9_Witness ==
    /\ fetched.made /\ GoodFrame(fetched.df) /\ fetched.prev.exists
    /\ Len(fetched.prev.rows) > Len(fetched.df.rows)
    /\ bars[fetched.key] # fetched.prev

\* The run that has ended consulted a configuration file that is missing
\* or unloadable (or holds nothing).
ConfigFailed ==
    /\ pc = "idle"
    /\ \/ run.cmd = "fetch_all" /\ ~truthy(symbols_yaml)
       \/ run.cmd \in {"fetch", "fetch_all"} /\ ~truthy(factors_yaml)
       \/ run.cmd = "calculate" /\ run.symbols = <<>> /\ ~truthy(symbols_yaml)
       \/ run.cmd = "calculate" /\ run.levels = <<>> /\ ~truthy(factors_yaml)

Position(r) == (r.si - 1) * Len(r.levels) + r.li

\* C11: in a calculate run every iteration calls calculate_and_save_<kind>
\* for the current pair and, whether the call returned or raised, the loop
\* goes on to the next pair; after the last pair the run completes
\* normally.  No calculate run ever ends with an error.
C11_ErrorSkipped ==
    /\ [](pc = "idle" /\ run.cmd = "calculate" => result = "returned")
    /\ [][pc = "calc" =>
            /\ last'.made
            /\ last'.entry = <<CurrentKey[1], CurrentKey[2], run.kind>>
            /\ run'.symbols = run.symbols /\ run'.levels = run.levels
            /\ IF Position(run) < Len(run.symbols) * Len(run.levels)
               THEN pc' = "calc" /\ Position(run') = Position(run) + 1
               ELSE pc' = "idle" /\ result' = "returned"
        ]_vars

\* C11: witness, a run over two symbols has completed normally; a call of
\* it raised, and the last call, a later one, returned having written
C11_Witness ==
    /\ pc = "idle" /\ run.cmd = "calculate" /\ result = "returned"
    /\ Len(run.symbols) = 2 /\ Len(run.levels) >= 2
    /\ run.failed
    /\ last.made /\ last.outcome = "returned" /\ last.wrote

Defined(x) == x.k # "nan"
Column(frame, name) == [i \in 1..Len(frame.rows) |-> frame.rows[i][name]]
Increasing(c) == \A i \in 1..(Len(c) - 1) : c[i] < c[i + 1]
Decreasing(c) == \A i \in 1..(Len(c) - 1) : c[i] > c[i + 1]

\* C12: the frame an indicator function returns has one row per row of
\* its input, under the same index in the same order, whatever the length
\* of the input (shorter than the window, and empty, included).
C12_OneRecordPerBar ==
    calc.made /\ calc.fn \in Kinds =>
        /\ ~calc.out.raised
        /\ Len(calc.out.rows) = Len(calc.df.rows)
        /\ calc.out.index = calc.df.index

\* C12: witness, calculate_boll on two bars with a window of three gave
\* two rows, without a value
C12_Witness ==
    /\ calc.made /\ calc.fn = "boll" /\ calc.period = 3
    /\ Len(calc.df.rows) = 2 /\ Len(calc.out.rows) = 2
    /\ calc.out.index = <<3, 5>>
    /\ ~Defined(calc.out.rows[2].MIDDLE)

\* C13: at every position after the first where the average loss is 0,
\* the RSI is 100, also where the average gain is 0 as well.
C13_ZeroLossIs100 ==
    calc.made /\ calc.fn = "rsi" =>
        LET avg_loss == rolling_average(loss(close_of(calc.df)), calc.period)
        IN  \A i \in 2..Len(calc.out.rows) :
                avg_loss[i] = Whole(0) => calc.out.rows[i].RSI = Whole(100)

BollDefined(row) == Defined(row.MIDDLE) /\ Defined(row.UPPER) /\ Defined(row.LOWER)
BollUndefined(row) == ~Defined(row.MIDDLE) /\ ~Defined(row.UPPER) /\ ~Defined(row.LOWER)

\* The variance of the window that ends at i, the squared deviations
\* divided by the size of the window
population_var(x, window, i) ==
    LET lo == i - window + 1
        S == SumTo(x, lo, i)
        Q == SumTo([j \in DOMAIN x |-> x[j] * x[j]], lo, i)
    IN  Num(window * Q - S * S, window * window)

\* C14: at every position where the three values are defined, MIDDLE is
\* the mean of the window and UPPER and LOWER are MIDDLE plus and minus
\* the multiplier times the population standard deviation of the window
\* (the squared deviations divided by period, not by period - 1).
C14_PopulationStd ==
    calc.made /\ calc.fn = "boll" =>
        LET c == close_of(calc.df)
        IN  \A i \in {j \in calc.period..Len(c) : BollDefined(calc.out.rows[j])} :
                LET middle == Num(SumTo(c, i - calc.period + 1, i), calc.period)
                    var == population_var(c, calc.period, i)
                IN  /\ calc.out.rows[i].MIDDLE = middle
                    /\ calc.out.rows[i].UPPER = Band(middle, BollMultiplier, var)
                    /\ calc.out.rows[i].LOWER = Band(middle, -BollMultiplier, var)

\* C15 as stated: for every period P, MIDDLE, UPPER and LOWER are
\* undefined at the positions before the P-th and defined from the P-th on.
C15_WarmUp ==
    calc.made /\ calc.fn = "boll" =>
        \A i \in 1..Len(calc.out.rows) :
            IF i < calc.period THEN BollUndefined(calc.out.rows[i])
            ELSE BollDefined(calc.out.rows[i])

\* C15, what calculate_boll does: for every period P >= 2, MIDDLE, UPPER
\* and LOWER are undefined at the positions before the P-th and defined
\* from the P-th on; for P = 1, MIDDLE is defined at every position and
\* UPPER and LOWER at none (the deviation of one value, divided by 0).
C15_WarmUpFromTwo ==
    calc.made /\ calc.fn = "boll" =>
        \A i \in 1..Len(calc.out.rows) :
            IF calc.period = 1
            THEN /\ Defined(calc.out.rows[i].MIDDLE)
                 /\ ~Defined(calc.out.rows[i].UPPER)
                 /\ ~Defined(calc.out.rows[i].LOWER)
            ELSE IF i < calc.period THEN BollUndefined(calc.out.rows[i])
            ELSE BollDefined(calc.out.rows[i])

\* C15: a window of two over four bars: nothing at the first
\* position, a band around the mean at the second
C15_Witness ==
    /\ calc.made /\ calc.fn = "boll" /\ calc.period = 2 /\ Len(calc.out.rows) = 4
    /\ BollUndefined(calc.out.rows[1])
    /\ BollDefined(calc.out.rows[2]) /\ calc.out.rows[2].UPPER.k = "band"
    /\ BollDefined(calc.out.rows[4])

\* C16: when DIFF <= DEA at every position before k and DIFF > DEA at k
\* and at every position after it (k not the first position), the mask of
\* the golden crosses is true at k and nowhere else; the first position is
\* never a cross.
C16_BullishCrossAtK ==
    calc.made /\ calc.fn \in {"cross", "macd"} =>
        LET DIFF == Column(calc.out, "DIFF")
            DEA == Column(calc.out, "DEA")
        IN  /\ Len(DIFF) >= 1 => ~calc.golden[1] /\ ~calc.death[1]
            /\ \A k \in 2..Len(DIFF) :
                  (/\ \A i \in 1..(k - 1) : FLe(DIFF[i], DEA[i])
                   /\ \A i \in k..Len(DIFF) : FGt(DIFF[i], DEA[i]))
                  => calc.golden = [i \in 1..Len(DIFF) |-> i = k]

\* C16: witness, DIFF below DEA, then equal to it, then above it twice: a
\* golden cross at the third position only
C16_Witness ==
    /\ calc.made /\ calc.fn = "cross" /\ Len(calc.out.rows) = 4
    /\ FLt(calc.out.rows[1].DIFF, calc.out.rows[1].DEA)
    /\ calc.out.rows[2].DIFF = calc.out.rows[2].DEA
    /\ FGt(calc.out.rows[3].DIFF, calc.out.rows[3].DEA)
    /\ FGt(calc.out.rows[4].DIFF, calc.out.rows[4].DEA)
    /\ calc.golden = <<FALSE, FALSE, TRUE, FALSE>>

\* C17: on strictly increasing closes every loss is 0 and the RSI is 100
\* at every position after the first; on strictly decreasing closes every
\* gain is 0 and the RSI is 0 at every position after the first; at the
\* first position the RSI is undefined.
C17_MonotoneInput ==
    calc.made /\ calc.fn = "rsi" =>
        LET c == close_of(calc.df)
            RSI == Column(calc.out, "RSI")
        IN  /\ Increasing(c) =>
                  /\ \A i \in DOMAIN c : loss(c)[i] = 0
                  /\ \A i \in 2..Len(c) : RSI[i] = Whole(100)
                  /\ Len(c) >= 1 => ~Defined(RSI[1])
            /\ Decreasing(c) =>
                  /\ \A i \in DOMAIN c : gain(c)[i] = 0
                  /\ \A i \in 2..Len(c) : RSI[i] = Whole(0)
                  /\ Len(c) >= 1 => ~Defined(RSI[1])

\* C17: witness, three rising closes under a window of two
C17_Witness ==
    /\ calc.made /\ calc.fn = "rsi" /\ calc.period = 2
    /\ close_of(calc.df) = <<1, 2, 3>>
    /\ ~Defined(calc.out.rows[1].RSI)
    /\ calc.out.rows[2].RSI = Whole(100) /\ calc.out.rows[3].RSI = Whole(100)

\* C18: every RSI value is undefined or lies between 0 and 100, both included.
C18_Range ==
    calc.made /\ calc.fn = "rsi" =>
        \A i \in 1..Len(calc.out.rows) :
            LET v == calc.out.rows[i].RSI
            IN  ~Defined(v) \/ (IsNum(v) /\ FLe(Whole(0), v) /\ FLe(v, Whole(100)))

\* C18: witness, gains and losses in one window: a value strictly inside
C18_Witness ==
    /\ calc.made /\ calc.fn = "rsi" /\ Len(calc.out.rows) = 4
    /\ IsNum(calc.out.rows[4].RSI)
    /\ FLt(Whole(0), calc.out.rows[4].RSI) /\ FLt(calc.out.rows[4].RSI, Whole(50))

\* C19: DIFF, DEA and BAR are defined at every position and DIFF is 0 at
\* the first one (both averages start at the first close); on constant
\* closes DIFF, DEA and BAR are 0 at every position and neither mask of
\* plot_macd reports a cross.
C19_ConstantInput ==
    calc.made /\ calc.fn = "macd" =>
        /\ \A i \in 1..Len(calc.out.rows) :
              IsNum(calc.out.rows[i].DIFF) /\ IsNum(calc.out.rows[i].DEA)
                /\ IsNum(calc.out.rows[i].BAR)
        /\ Len(calc.out.rows) >= 1 => calc.out.rows[1].DIFF = Whole(0)
        /\ IsConstant(close_of(calc.df)) =>
              \A i \in 1..Len(calc.out.rows) :
                  /\ calc.out.rows[i].DIFF = Whole(0)
                  /\ calc.out.rows[i].DEA = Whole(0)
                  /\ calc.out.rows[i].BAR = Whole(0)
                  /\ ~calc.golden[i] /\ ~calc.death[i]

\* C19: witness, four equal closes under the default spans
C19_Witness ==
    /\ calc.made /\ calc.fn = "macd"
    /\ calc.spans = <<MacdFast, MacdSlow, MacdSignal>>
    /\ close_of(calc.df) = <<2, 2, 2, 2>>
    /\ calc.out.rows[4].DIFF = Whole(0) /\ calc.out.rows[4].DEA = Whole(0)
    /\ calc.golden = <<FALSE, FALSE, FALSE, FALSE>>

Writers(e) == {p \in Procs : procs[p].pc # "none" /\ procs[p].wrote /\ procs[p].key = e}

\* C20: between its check of the artifact and its write a call can be
\* overtaken, so the artifact of a key is written once by every call for
\* that key that found it absent, twice when two calls for the key
\* interleave; a call for another key never writes it.
C20_WritesByOwnKey ==
    /\ \A e \in AllEntries : writes[e] = Cardinality(Writers(e))
    /\ \A e \in AllEntries : cache[e].exists => Writers(e) # {}
    /\ \A p \in Procs : procs[p].pc # "none" /\ procs[p].wrote =>
            procs[p].absent /\ procs[p].file = procs[p].key

\* C20: witness, two calls for one key both found the artifact absent and
\* both wrote it
C20_Witness ==
    \E e \in AllEntries :
        /\ writes[e] = 2
        /\ \A p \in Procs : /\ procs[p].pc = "done" /\ procs[p].key = e
                             /\ procs[p].absent /\ procs[p].wrote

\* C21: a chart exists only if its artifact exists; a step renders a chart
\* only in the call of calculate_and_save_<kind> that found the artifact
\* absent and has just written it; when the rendering raises, the artifact
\* stays; and an artifact that exists without its chart never gets one.
C21_ChartAfterEntry ==
    /\ [](\A e \in charts : cache[e].exists)
    /\ [][/\ charts' # charts =>
                /\ pc = "calc"
                /\ charts' = charts \cup {last'.entry}
                /\ ~last'.existed /\ ~cache[last'.entry].exists
                /\ last'.wrote /\ last'.plotted
                /\ cache'[last'.entry].exists
          /\ pc = "calc" /\ last'.wrote /\ ~last'.plotted =>
                /\ last'.outcome = "raised"
                /\ cache'[last'.entry].exists
                /\ charts' = charts
          /\ \A e \in AllEntries : cache[e].exists /\ e \notin charts => e \notin charts'
        ]_vars

\* C21: witness, a later call for a key whose artifact was written and
\* whose chart failed found the artifact and rendered nothing
C21_Witness ==
    /\ last.made /\ last.existed /\ ValidBars(last.data)
    /\ last.outcome = "returned" /\ ~last.wrote /\ ~last.plotted
    /\ cache[last.entry].exists /\ writes[last.entry] = 1
    /\ last.entry \notin charts

====
